---- MODULE Spec2Model ----
(***************************************************************************)
(* Kernel-argument injection of pkg/isoeditor: the target resolver         *)
(* (kargsFiles), the per-target conversion (kargsFileData and its two      *)
(* strategies), the dispatcher with rollback (NewKargsReader), the file    *)
(* isolator (isolateISOFile) and the argument codec (KargsToStr /          *)
(* StrToKargs).                                                            *)
(*                                                                         *)
(* The repository carries two versions of the dispatcher: the one of       *)
(* src/pkg/isoeditor/kargs.go (overlay for both strategies) and the one of *)
(* src/unnamed/part_001 (extract / rewrite for s390x, deferred closes).    *)
(* The variable impl says which of the two is built.                       *)
(*                                                                         *)
(* Bytes are symbols: "NL" is a newline, "#" a comment mark, "K" stands    *)
(* for the literal " COREOS_KARG_EMBED_AREA" that follows the last "#" of  *)
(* a marker line, "x", "h", "d" are other bytes of the image and "a" is a  *)
(* byte of the argument text.  Offsets are Go offsets (0-based).           *)
(***************************************************************************)
EXTENDS Integers, Sequences, FiniteSets, TLC

VARIABLES
    impl,          \* "kargs" (src/pkg/isoeditor/kargs.go) or "part001" (src/unnamed/part_001)
    s390x,         \* strings.Contains(isoPath, "s390x")
    iso,           \* the image at isoPath: bytes, directory, manifest
    pc,            \* position of the NewKargsReader call
    appendText,    \* the appendKargs argument of NewKargsReader
    appendData,    \* normalised append bytes
    files,         \* result of KargsFiles
    i,             \* loop index of NewKargsReader
    j,             \* index of the rollback loop
    output,        \* FileData built so far
    ret,           \* list returned to the caller
    err,           \* error returned to the caller ("nil" when none)
    handles,       \* every handle opened so far, with its number of Close calls
    dirs,          \* every scratch directory created so far
    callerClosed,  \* indexes of ret the caller has closed
    readBack,      \* what the caller read from each returned stream
    cpc,           \* position of the codec run
    cArgs,         \* argument list given to KargsToStr
    cStr,          \* JSON text produced by KargsToStr / given to StrToKargs
    cOut,          \* result of StrToKargs
    upc,           \* position of a call of the finder or of isolateISOFile on its own
    uArg,          \* arguments of that call
    uRes           \* result of that call

vars == <<impl, s390x, iso, pc, appendText, appendData, files, i, j, output, ret, err,
          handles, dirs, callerClosed, readBack, cpc, cArgs, cStr, cOut,
          upc, uArg, uRes>>

convVars == <<impl, s390x, iso, pc, appendText, appendData, files, i, j, output, ret, err,
              handles, dirs, callerClosed, readBack>>

codecVars == <<cpc, cArgs, cStr, cOut>>

unitVars == <<upc, uArg, uRes>>

----------------------------------------------------------------------------
\* Bounds

MaxFiles == 2

MaxAppendLen == 2

MaxArgs == 2

MaxArgLen == 2

----------------------------------------------------------------------------
\* Constants of the source

defaultGrubFilePath == "/EFI/redhat/grub.cfg"

defaultIsolinuxFilePath == "/isolinux/isolinux.cfg"

NoErr == "nil"

NL == "NL"

----------------------------------------------------------------------------
\* Generic helpers

SeqsUpTo(S, n) == UNION {[1..k -> S] : k \in 0..n}

Min(a, b) == IF a < b THEN a ELSE b

Max(a, b) == IF a > b THEN a ELSE b

----------------------------------------------------------------------------
\* The image

Paths == {defaultGrubFilePath, defaultIsolinuxFilePath}

\* content of a boot-config file: one marker line, capture span "NL # #"
MarkerContent == <<"x", NL, "#", "#", "#", "K", NL, "x">>

\* content with two marker lines
TwoMarkerContent == <<NL, "#", "K", NL, "#", "#", "K">>

\* the shortest content with a marker line
ShortMarkerContent == <<NL, "#", "K">>

\* content without a marker line
PlainContent == <<"x", "x">>

Absent == [present |-> FALSE, bytes |-> <<>>]

There(b) == [present |-> TRUE, bytes |-> b]

GrubContents == {Absent, There(MarkerContent), There(TwoMarkerContent)}

IsolinuxContents == {There(MarkerContent), There(ShortMarkerContent), There(PlainContent)}

NullEntry == [hasPath |-> FALSE, path |-> "", offset |-> 0]

ManifestEntries == [hasPath : {TRUE}, path : Paths, offset : {0, 1}] \cup {NullEntry}

ManifestAbsent == [state |-> "absent", default |-> <<>>, files |-> <<>>]

ManifestMalformed == [state |-> "malformed", default |-> <<>>, files |-> <<>>]

Manifests ==
    {ManifestAbsent, ManifestMalformed} \cup
    {[state |-> "ok", default |-> <<"d">>, files |-> fs] : fs \in SeqsUpTo(ManifestEntries, MaxFiles)}

NoInfo == [ok |-> FALSE, off |-> 0, len |-> 0]

\* an image: one header byte, then the grub config, then the isolinux config
MkIso(cg, ci, m) ==
    [data |-> <<"h">> \o cg.bytes \o ci.bytes,
     dir |-> [p \in Paths |->
                IF p = defaultGrubFilePath
                THEN (IF cg.present THEN [ok |-> TRUE, off |-> 1, len |-> Len(cg.bytes)] ELSE NoInfo)
                ELSE (IF ci.present THEN [ok |-> TRUE, off |-> 1 + Len(cg.bytes), len |-> Len(ci.bytes)]
                      ELSE NoInfo)],
     manifest |-> m]

Images == {MkIso(cg, ci, m) : cg \in GrubContents, ci \in IsolinuxContents, m \in Manifests}

\* GetISOFileInfo(filePath, isoPath): offset and length of a file of the image
GetISOFileInfo(img, path, fails) ==
    IF fails \/ path \notin Paths THEN NoInfo ELSE img.dir[path]

\* ReadFileFromISO(isoPath, filePath) for a boot-config file
ReadFileFromISO(img, path, fails) ==
    IF fails \/ path \notin Paths \/ ~img.dir[path].ok
    THEN [ok |-> FALSE, bytes |-> <<>>]
    ELSE [ok |-> TRUE,
          bytes |-> SubSeq(img.data, img.dir[path].off + 1, img.dir[path].off + img.dir[path].len)]

----------------------------------------------------------------------------
\* kargsFiles

\* the loop of kargsFiles without the nil test
PathsOf_noSkip(fs) == [k \in 1..Len(fs) |-> fs[k].path]

PathsOf(fs) ==
    LET F[k \in 0..Len(fs)] ==
            IF k = 0 THEN <<>>
            ELSE IF fs[k].hasPath THEN Append(F[k-1], fs[k].path) ELSE F[k-1]
    IN F[Len(fs)]

kargsFiles(img) ==
    IF img.manifest.state = "absent"
    THEN [err |-> NoErr, files |-> <<defaultGrubFilePath, defaultIsolinuxFilePath>>]
    ELSE IF img.manifest.state = "malformed"
    THEN [err |-> "unmarshal", files |-> <<>>]
    ELSE [err |-> NoErr, files |-> PathsOf(img.manifest.files)]

KargsFiles(img) == kargsFiles(img)

----------------------------------------------------------------------------
\* Handles

BaseHandle ==
    [kind |-> "base", closes |-> 0, base |-> 0, off |-> 0, patch |-> <<>>,
     dir |-> 0, path |-> "", content |-> <<>>]

OverlayHandle(b, off, patch) ==
    [kind |-> "overlay", closes |-> 0, base |-> b, off |-> off, patch |-> patch,
     dir |-> 0, path |-> "", content |-> <<>>]

FileHandle(d, path, content) ==
    [kind |-> "file", closes |-> 0, base |-> 0, off |-> 0, patch |-> <<>>,
     dir |-> d, path |-> path, content |-> content]

\* (*os.File).Close
FileClose(hs, h) == [hs EXCEPT ![h].closes = @ + 1]

\* OverlayReader.Close: closing the composed stream closes base
OverlayClose(hs, h) == [hs EXCEPT ![h].closes = @ + 1, ![hs[h].base].closes = @ + 1]

Close(hs, h) == IF hs[h].kind = "overlay" THEN OverlayClose(hs, h) ELSE FileClose(hs, h)

\* overlay.NewOverlayReader(base, Overlay{Reader, Offset, Length: Reader.Size()})
NewOverlayReader(hs, b, off, content, fails) ==
    IF fails THEN [err |-> "overlay", hs |-> hs, h |-> 0]
    ELSE [err |-> NoErr, hs |-> Append(hs, OverlayHandle(b, off, content)), h |-> Len(hs) + 1]

NoData == [kind |-> "none", h |-> 0, start |-> 0, limit |-> 0]

NoFileData == [Filename |-> "", Data |-> NoData]

Failed(e, hs, ds, img) == [err |-> e, hs |-> hs, ds |-> ds, img |-> img, fd |-> NoFileData]

----------------------------------------------------------------------------
\* kargsEmbedAreaBoundariesFinder

\* number of consecutive "#" of b from (1-based) position p on
RunLen(b, p) ==
    Cardinality({n \in 1..Len(b) : \A q \in 0..(n-1) : p + q <= Len(b) /\ b[p + q] = "#"})

\* the pattern (\n#*)# COREOS_KARG_EMBED_AREA matches at (1-based) position p
MatchAt(b, p) ==
    /\ b[p] = NL
    /\ RunLen(b, p + 1) >= 1
    /\ p + 1 + RunLen(b, p + 1) <= Len(b)
    /\ b[p + 1 + RunLen(b, p + 1)] = "K"

\* the leftmost match with the whole match given as the capture group
FindSubmatchIndex_wholeMatch(b) ==
    LET ms == {p \in 1..Len(b) : MatchAt(b, p)} IN
    IF ms = {} THEN <<>>
    ELSE LET p == CHOOSE q \in ms : \A q2 \in ms : q <= q2
             r == RunLen(b, p + 1)
         IN <<p - 1, p + r + 1, p - 1, p + r + 1>>

\* regexp.FindSubmatchIndex: the leftmost match, as 0-based index pairs, or nil
FindSubmatchIndex(b) ==
    LET ms == {p \in 1..Len(b) : MatchAt(b, p)} IN
    IF ms = {} THEN <<>>
    ELSE LET p == CHOOSE q \in ms : \A q2 \in ms : q <= q2
             r == RunLen(b, p + 1)
         IN <<p - 1, p + r + 1, p - 1, p - 1 + r>>

\* the result of the finder with the file's start offset left out
finderResult_noStart(start, submatchIndexes) ==
    IF Len(submatchIndexes) # 4
    THEN [err |-> "failed to find COREOS_KARG_EMBED_AREA", offset |-> 0, length |-> 0]
    ELSE [err |-> NoErr,
          offset |-> submatchIndexes[3],
          length |-> submatchIndexes[4] - submatchIndexes[3]]

\* lines 187-190: the result of the finder from the file's start and the match
finderResult(start, submatchIndexes) ==
    IF Len(submatchIndexes) # 4
    THEN [err |-> "failed to find COREOS_KARG_EMBED_AREA", offset |-> 0, length |-> 0]
    ELSE [err |-> NoErr,
          offset |-> start + submatchIndexes[3],
          length |-> submatchIndexes[4] - submatchIndexes[3]]

kargsEmbedAreaBoundariesFinder(img, filePath, infoFails, readFails) ==
    IF ~GetISOFileInfo(img, filePath, infoFails).ok
    THEN [err |-> "file info", offset |-> 0, length |-> 0]
    ELSE IF ~ReadFileFromISO(img, filePath, readFails).ok
    THEN [err |-> "read file", offset |-> 0, length |-> 0]
    ELSE finderResult(GetISOFileInfo(img, filePath, infoFails).off,
                      FindSubmatchIndex(ReadFileFromISO(img, filePath, readFails).bytes))

----------------------------------------------------------------------------
\* The overlay strategies

\* the overlay put at the start of the embed area bf
overlayAt(bf, b, content, hs, fault) ==
    IF bf.err # NoErr THEN [err |-> bf.err, hs |-> hs, h |-> 0]
    ELSE NewOverlayReader(hs, b, bf.offset, content, fault = "overlay")

\* readerForContent: boundaries finder, then an overlay of the content at the
\* start of the embed area
readerForContent(img, filePath, b, content, hs, fault) ==
    overlayAt(kargsEmbedAreaBoundariesFinder(img, filePath, fault = "info", fault = "read"),
              b, content, hs, fault)

readerForKargsContent(img, filePath, b, content, hs, fault) ==
    readerForContent(img, filePath, b, content, hs, fault)

\* index of the first manifest entry whose path is filePath, 0 when none
EntryFor(fs, filePath) ==
    LET S == {k \in 1..Len(fs) : fs[k].path = filePath} IN
    IF S = {} THEN 0 ELSE CHOOSE k \in S : \A k2 \in S : k <= k2

\* lines 92-111: the overlay at fileOffset + kargsOffset + len(default), k the entry found
readerForKargsS390xAt(img, fileOffset, k, b, content, hs, fault) ==
    IF k = 0 THEN [err |-> "not found in kargs config", hs |-> hs, h |-> 0]
    ELSE NewOverlayReader(hs, b,
                          fileOffset + img.manifest.files[k].offset + Len(img.manifest.default),
                          content, fault = "overlay")

readerForKargsS390x(img, filePath, b, content, hs, fault) ==
    IF ~GetISOFileInfo(img, filePath, fault = "info").ok
    THEN [err |-> "file info", hs |-> hs, h |-> 0]
    ELSE IF img.manifest.state = "absent"
    THEN [err |-> "failed to read kargs config", hs |-> hs, h |-> 0]
    ELSE IF img.manifest.state = "malformed"
    THEN [err |-> "failed to unmarshal kargs config", hs |-> hs, h |-> 0]
    ELSE readerForKargsS390xAt(img, GetISOFileInfo(img, filePath, fault = "info").off,
                               EntryFor(img.manifest.files, filePath), b, content, hs, fault)

----------------------------------------------------------------------------
\* isolateISOFile

\* isolateISOFile expanding also when minLength equals the file's length
isolateAt_expandedAtEqual(info, file, data, minLength, fault) ==
    IF ~info.ok \/ fault = "seek"
    THEN [err |-> IF ~info.ok THEN "file info" ELSE "seek", fd |-> NoFileData, expanded |-> FALSE]
    ELSE [err |-> NoErr,
          fd |-> [Filename |-> file,
                  Data |-> [kind |-> "limit", h |-> data, start |-> info.off,
                            limit |-> IF minLength > info.len THEN minLength ELSE info.len]],
          expanded |-> minLength >= info.len]

\* lines 24-41, info the result of GetISOFileInfo
isolateAt(info, file, data, minLength, fault) ==
    IF ~info.ok \/ fault = "seek"
    THEN [err |-> IF ~info.ok THEN "file info" ELSE "seek", fd |-> NoFileData, expanded |-> FALSE]
    ELSE [err |-> NoErr,
          fd |-> [Filename |-> file,
                  Data |-> [kind |-> "limit", h |-> data, start |-> info.off,
                            limit |-> IF minLength > info.len THEN minLength ELSE info.len]],
          expanded |-> minLength > info.len]

isolateISOFile(img, file, hs, data, minLength, fault) ==
    isolateAt(GetISOFileInfo(img, file, fault = "isoinfo"), file, data, minLength, fault)

----------------------------------------------------------------------------
\* kargsFileData of src/pkg/isoeditor/kargs.go

\* lines 133-139, x the result of isolateISOFile on the overlay r
kargsFileDataIsolated(img, ds, r, x) ==
    IF x.err # NoErr THEN Failed(x.err, Close(r.hs, r.h), ds, img)
    ELSE [err |-> NoErr, hs |-> r.hs, ds |-> ds, img |-> img, fd |-> x.fd]

\* lines 127-139, r the result of the strategy's reader
kargsFileDataOpened(img, file, ds, baseISO, r, fault) ==
    IF r.err # NoErr THEN Failed(r.err, FileClose(r.hs, baseISO), ds, img)
    ELSE kargsFileDataIsolated(img, ds, r, isolateISOFile(img, file, r.hs, r.h, 0, fault))

kargsFileData(img, s, file, appendKargs, hs, ds, fault) ==
    IF fault = "open" THEN Failed("open", hs, ds, img)
    ELSE kargsFileDataOpened(
             img, file, ds, Len(hs) + 1,
             IF s THEN readerForKargsS390x(img, file, Len(hs) + 1, appendKargs,
                                           Append(hs, BaseHandle), fault)
             ELSE readerForKargsContent(img, file, Len(hs) + 1, appendKargs,
                                        Append(hs, BaseHandle), fault),
             fault)

----------------------------------------------------------------------------
\* The extract / rewrite strategy of src/unnamed/part_001

EmptyTree == [p \in Paths |-> Absent]

\* Extract(isoPath, isoTempDir): a copy of every file of the image
Extract(img) ==
    [p \in Paths |-> IF img.dir[p].ok THEN There(ReadFileFromISO(img, p, FALSE).bytes) ELSE Absent]

NewDir == [exists |-> TRUE, removes |-> 0, tree |-> EmptyTree]

\* os.RemoveAll(isoTempDir)
RemoveAll(ds, d) == [ds EXCEPT ![d].exists = FALSE, ![d].removes = @ + 1, ![d].tree = EmptyTree]

\* bytes c with bytes w written at (0-based) offset off; a hole reads as "0"
WriteAt(c, off, w) ==
    [k \in 1..Max(Len(c), off + Len(w)) |->
        IF k > off /\ k <= off + Len(w) THEN w[k - off]
        ELSE IF k <= Len(c) THEN c[k] ELSE "0"]

\* the write done on the image itself, at the file's place in it
fileWrite_onImage(img, ds, hs, f, kargsOffset, finalKargs) ==
    [img |-> [img EXCEPT !.data = WriteAt(img.data, img.dir[hs[f].path].off + kargsOffset, finalKargs)],
     ds |-> ds,
     hs |-> hs]

\* file.Write(finalKargs) at kargsOffset, on the handle f of the extracted copy
fileWrite(img, ds, hs, f, kargsOffset, finalKargs) ==
    [img |-> img,
     ds |-> [ds EXCEPT ![hs[f].dir].tree[hs[f].path] =
                          There(WriteAt(hs[f].content, kargsOffset, finalKargs))],
     hs |-> [hs EXCEPT ![f].content = WriteAt(hs[f].content, kargsOffset, finalKargs)]]

\* lines 117-160, file the handle opened and w the state after the write.
\* The deferred file.Close() tests the function's err variable; the errors of
\* Write and Sync are declared in their if statements and leave it nil.
appendS390xKargsOpened(img, filePath, hs1, ds2, file, w, fault) ==
    IF fault = "seek1" THEN Failed("seek to offset failed", FileClose(hs1, file), ds2, img)
    ELSE IF fault = "readall"
    THEN Failed("failed to read existing kargs", FileClose(hs1, file), ds2, img)
    ELSE IF fault = "seek2" THEN Failed("seek to offset failed", FileClose(hs1, file), ds2, img)
    ELSE IF fault = "write" THEN Failed("write failed", hs1, ds2, img)
    ELSE IF fault = "sync" THEN Failed("sync failed", w.hs, w.ds, w.img)
    ELSE IF fault = "seek3" THEN Failed("seek to start failed", FileClose(w.hs, file), w.ds, w.img)
    ELSE [err |-> NoErr, hs |-> w.hs, ds |-> w.ds, img |-> w.img,
          fd |-> [Filename |-> filePath,
                  Data |-> [kind |-> "file", h |-> file, start |-> 0, limit |-> 0]]]

\* lines 129-136: finalKargs, the bytes of c from kargsOffset on, then appendKargs
finalKargsOf(c, kargsOffset, appendKargs) == SubSeq(c, kargsOffset + 1, Len(c)) \o appendKargs

\* lines 124-160, hs1 the handles after OpenFile and file the handle opened
appendS390xKargsRewrite(img, filePath, appendKargs, kargsOffset, hs1, ds2, file, fault) ==
    appendS390xKargsOpened(
        img, filePath, hs1, ds2, file,
        fileWrite(img, ds2, hs1, file, kargsOffset,
                  finalKargsOf(hs1[file].content, kargsOffset, appendKargs)),
        fault)

\* lines 109-160, ds2 the directories after Extract into the directory d
appendS390xKargsExtracted(img, filePath, appendKargs, kargsOffset, hs, ds2, d, fault) ==
    IF fault = "openfile" \/ filePath \notin Paths \/ ~ds2[d].tree[filePath].present
    THEN Failed("failed to open file", hs, ds2, img)
    ELSE appendS390xKargsRewrite(
             img, filePath, appendKargs, kargsOffset,
             Append(hs, FileHandle(d, filePath, ds2[d].tree[filePath].bytes)),
             ds2, Len(hs) + 1, fault)

\* lines 103-160: the function from the creation of the scratch directory d on
appendS390xKargsBody(img, filePath, appendKargs, kargsOffset, hs, ds1, d, fault) ==
    IF fault = "extract" THEN Failed("failed to extract ISO", hs, ds1, img)
    ELSE appendS390xKargsExtracted(img, filePath, appendKargs, kargsOffset, hs,
                                   [ds1 EXCEPT ![d].tree = Extract(img)], d, fault)

\* the scratch directory removed on the successful path only
deferRemoveAll_onSuccess(r, isoTempDir) ==
    IF r.err # NoErr THEN r ELSE [r EXCEPT !.ds = RemoveAll(r.ds, isoTempDir)]

\* lines 97-101: the deferred os.RemoveAll(isoTempDir), r the result of the function
deferRemoveAll(r, isoTempDir) == [r EXCEPT !.ds = RemoveAll(r.ds, isoTempDir)]

\* lines 87-161, k the manifest entry found for filePath
appendS390xKargsFound(img, filePath, appendKargs, k, hs, ds, fault) ==
    IF k = 0 THEN Failed("not found in kargs config", hs, ds, img)
    ELSE IF fault = "mkdir" THEN Failed("failed to create temp dir", hs, ds, img)
    ELSE deferRemoveAll(
             appendS390xKargsBody(img, filePath, appendKargs, img.manifest.files[k].offset,
                                  hs, Append(ds, NewDir), Len(ds) + 1, fault),
             Len(ds) + 1)

appendS390xKargs(img, filePath, appendKargs, hs, ds, fault) ==
    IF img.manifest.state = "absent" THEN Failed("failed to read kargs config", hs, ds, img)
    ELSE IF img.manifest.state = "malformed"
    THEN Failed("failed to unmarshal kargs config", hs, ds, img)
    ELSE appendS390xKargsFound(img, filePath, appendKargs,
                               EntryFor(img.manifest.files, filePath), hs, ds, fault)

\* lines 179-186: the deferred iso.Close(), x the result of isolateISOFile on the overlay o
kargsFileDataIsolated_p1(img, ds, o, x) ==
    IF x.err # NoErr THEN Failed(x.err, OverlayClose(o.hs, o.h), ds, img)
    ELSE [err |-> NoErr, hs |-> OverlayClose(o.hs, o.h), ds |-> ds, img |-> img, fd |-> x.fd]

\* lines 175-186, o the result of readerForKargsContent
kargsFileDataOverlay_p1(img, file, ds, o, fault) ==
    IF o.err # NoErr THEN Failed(o.err, o.hs, ds, img)
    ELSE kargsFileDataIsolated_p1(img, ds, o, isolateISOFile(img, file, o.hs, o.h, 0, fault))

\* line 168: the deferred baseISO.Close(), r the result of the function
deferBaseClose(r, baseISO) == [r EXCEPT !.hs = FileClose(r.hs, baseISO)]

\* kargsFileData of src/unnamed/part_001
kargsFileData_p1(img, s, file, appendKargs, hs, ds, fault) ==
    IF fault = "open" THEN Failed("open", hs, ds, img)
    ELSE deferBaseClose(
             IF s THEN appendS390xKargs(img, file, appendKargs, Append(hs, BaseHandle), ds, fault)
             ELSE kargsFileDataOverlay_p1(
                      img, file, ds,
                      readerForKargsContent(img, file, Len(hs) + 1, appendKargs,
                                            Append(hs, BaseHandle), fault),
                      fault),
             Len(hs) + 1)

----------------------------------------------------------------------------
\* Reading a returned stream

Closed(hs, h) == hs[h].closes > 0

\* byte at (0-based) position q of the composed stream
OverlayByteAt(img, ov, q) ==
    IF q >= ov.off /\ q < ov.off + Len(ov.patch) THEN ov.patch[q - ov.off + 1]
    ELSE IF q < Len(img.data) THEN img.data[q + 1]
    ELSE "0"

OverlaySize(img, ov) == Max(Len(img.data), ov.off + Len(ov.patch))

\* io.ReadAll(fd.Data)
ReadAll(img, hs, data) ==
    IF data.kind = "limit"
    THEN IF Closed(hs, data.h) \/ Closed(hs, hs[data.h].base)
         THEN [state |-> "error", bytes |-> <<>>]
         ELSE LET n == Min(data.limit, Max(0, OverlaySize(img, hs[data.h]) - data.start)) IN
              [state |-> "read",
               bytes |-> [k \in 1..n |-> OverlayByteAt(img, hs[data.h], data.start + k - 1)]]
    ELSE IF Closed(hs, data.h)
         THEN [state |-> "error", bytes |-> <<>>]
         ELSE [state |-> "read", bytes |-> hs[data.h].content]

Unread == [state |-> "unread", bytes |-> <<>>]

----------------------------------------------------------------------------
\* NewKargsReader

AppendTexts == SeqsUpTo({"a", NL}, MaxAppendLen)

\* appendData of src/pkg/isoeditor/kargs.go
normalize(text, s) ==
    IF text[Len(text)] # NL /\ ~s THEN Append(text, NL) ELSE text

\* appendData of src/unnamed/part_001
normalize_p1(text, s) ==
    IF text[Len(text)] # NL THEN Append(text, NL) ELSE text

\* the calls of kargsFileData that can fail whatever the image holds
OverlayFaults == {"info", "read", "overlay", "isoinfo", "seek"}

RewriteFaults == {"mkdir", "extract", "openfile", "seek1", "readall", "seek2", "write", "sync", "seek3"}

Faults == {"none", "open"} \cup OverlayFaults \cup RewriteFaults

\* the faults that can occur in the build and strategy at hand
FaultsOf(im, s) ==
    {"none", "open"} \cup (IF im = "part001" /\ s THEN RewriteFaults ELSE OverlayFaults)

\* lines 145-158: no-op test, normalisation, KargsFiles
NewKargsReaderCall(text) ==
    /\ pc = "idle"
    /\ appendText' = text
    /\ IF text = <<>> \/ text = <<NL>>
       THEN /\ pc' = "done"
            /\ err' = NoErr
            /\ UNCHANGED <<appendData, files>>
       ELSE LET kf == KargsFiles(iso) IN
            /\ appendData' = IF impl = "kargs" THEN normalize(text, s390x)
                                               ELSE normalize_p1(text, s390x)
            /\ files' = kf.files
            /\ err' = kf.err
            /\ pc' = IF kf.err # NoErr THEN "done" ELSE "loop"
    /\ UNCHANGED <<impl, s390x, iso, i, j, output, ret, handles, dirs, callerClosed, readBack>>
    /\ UNCHANGED codecVars
    /\ UNCHANGED unitVars

\* lines 161-169: what the loop does with the result r of kargsFileData
KargsFileDataResult(r) ==
    /\ handles' = r.hs
    /\ dirs' = r.ds
    /\ iso' = r.img
    /\ IF r.err # NoErr
       THEN /\ err' = r.err
            /\ pc' = "rollback"
            /\ j' = 0
            /\ UNCHANGED <<output, i>>
       ELSE /\ output' = Append(output, r.fd)
            /\ i' = i + 1
            /\ UNCHANGED <<err, pc, j>>

\* one iteration of the loop: data, err := kargsFileData(isoPath, f, appendData)
KargsFileDataStep(fault) ==
    /\ pc = "loop"
    /\ i < Len(files)
    /\ fault \in FaultsOf(impl, s390x)
    /\ KargsFileDataResult(
           IF impl = "kargs"
           THEN kargsFileData(iso, s390x, files[i + 1], appendData, handles, dirs, fault)
           ELSE kargsFileData_p1(iso, s390x, files[i + 1], appendData, handles, dirs, fault))
    /\ UNCHANGED <<impl, s390x, appendText, appendData, files, ret, callerClosed, readBack>>
    /\ UNCHANGED codecVars
    /\ UNCHANGED unitVars

\* for _, fd := range output[:i] { fd.Data.Close() }
RollbackClose ==
    /\ pc = "rollback"
    /\ j < i
    /\ handles' = Close(handles, output[j + 1].Data.h)
    /\ j' = j + 1
    /\ UNCHANGED <<impl, s390x, iso, pc, appendText, appendData, files, i, output, ret, err, dirs,
                   callerClosed, readBack>>
    /\ UNCHANGED codecVars
    /\ UNCHANGED unitVars

\* the error returned together with the streams built so far
ReturnError_partial ==
    /\ pc = "rollback"
    /\ j = i
    /\ pc' = "done"
    /\ ret' = output
    /\ UNCHANGED <<impl, s390x, iso, appendText, appendData, files, i, j, output, err, handles, dirs,
                   callerClosed, readBack>>
    /\ UNCHANGED codecVars
    /\ UNCHANGED unitVars

\* return nil, err
ReturnError ==
    /\ pc = "rollback"
    /\ j = i
    /\ pc' = "done"
    /\ ret' = <<>>
    /\ UNCHANGED <<impl, s390x, iso, appendText, appendData, files, i, j, output, err, handles, dirs,
                   callerClosed, readBack>>
    /\ UNCHANGED codecVars
    /\ UNCHANGED unitVars

\* return output, nil
ReturnOutput ==
    /\ pc = "loop"
    /\ i = Len(files)
    /\ pc' = "done"
    /\ ret' = output
    /\ readBack' = [k \in 1..Len(output) |-> Unread]
    /\ UNCHANGED <<impl, s390x, iso, appendText, appendData, files, i, j, output, err, handles, dirs,
                   callerClosed>>
    /\ UNCHANGED codecVars
    /\ UNCHANGED unitVars

\* the caller reads a returned stream from its start to its end
CallerReadAll(k) ==
    /\ pc = "done"
    /\ k \in 1..Len(ret)
    /\ k \notin callerClosed
    /\ readBack[k].state = "unread"
    /\ readBack' = [readBack EXCEPT ![k] = ReadAll(iso, handles, ret[k].Data)]
    /\ UNCHANGED <<impl, s390x, iso, pc, appendText, appendData, files, i, j, output, ret, err, handles,
                   dirs, callerClosed>>
    /\ UNCHANGED codecVars
    /\ UNCHANGED unitVars

\* the caller closes a returned stream
CallerClose(k) ==
    /\ pc = "done"
    /\ k \in 1..Len(ret)
    /\ k \notin callerClosed
    /\ handles' = Close(handles, ret[k].Data.h)
    /\ callerClosed' = callerClosed \cup {k}
    /\ UNCHANGED <<impl, s390x, iso, pc, appendText, appendData, files, i, j, output, ret, err, dirs,
                   readBack>>
    /\ UNCHANGED codecVars
    /\ UNCHANGED unitVars

NoArg == [path |-> "", minLength |-> 0, fault |-> "none"]

NoUnitResult == [err |-> NoErr, offset |-> 0, length |-> 0, expanded |-> FALSE, fd |-> NoFileData]

UnitOff ==
    /\ upc = "off"
    /\ uArg = NoArg
    /\ uRes = NoUnitResult

CodecOff ==
    /\ cpc = "off"
    /\ cArgs = <<>>
    /\ cStr = <<>>
    /\ cOut = <<>>

Init ==
    /\ impl \in {"kargs", "part001"}
    /\ s390x \in BOOLEAN
    /\ iso \in Images
    /\ pc = "idle"
    /\ appendText = <<>>
    /\ appendData = <<>>
    /\ files = <<>>
    /\ i = 0
    /\ j = 0
    /\ output = <<>>
    /\ ret = <<>>
    /\ err = NoErr
    /\ handles = <<>>
    /\ dirs = <<>>
    /\ callerClosed = {}
    /\ readBack = <<>>
    /\ CodecOff
    /\ UnitOff

Next ==
    \/ \E a \in AppendTexts : NewKargsReaderCall(a)
    \/ \E fault \in Faults : KargsFileDataStep(fault)
    \/ RollbackClose
    \/ ReturnError
    \/ ReturnOutput
    \/ \E k \in 1..MaxFiles : CallerReadAll(k)
    \/ \E k \in 1..MaxFiles : CallerClose(k)

Spec == Init /\ [][Next]_vars

----------------------------------------------------------------------------
\* The argument codec.  A string is a sequence of characters: "a" a plain
\* character, "q" the double quote, "uFFFD" the replacement rune, "xFF" a
\* byte that is not valid UTF-8.  A JSON text is
\* kept by its structure (null, or an array of objects and nulls); a string
\* literal of the text is the sequence of its characters as written, escapes
\* included.

Chars == {"a", "q", "uFFFD", "xFF"}

ArgStrings == SeqsUpTo(Chars, MaxArgLen)

ArgLists == SeqsUpTo(ArgStrings, MaxArgs)

\* encoding/json, string encoder: one character as written in a literal
EscapeChar(c) ==
    CASE c = "q" -> "\\q"
      [] c = "xFF" -> "\\ufffd"
      [] OTHER -> c

\* encoding/json, string decoder: the character a written character stands for
UnescapeChar(c) ==
    CASE c = "\\q" -> "q"
      [] c = "\\ufffd" -> "uFFFD"
      [] c = "xFF" -> "uFFFD"
      [] OTHER -> c

EncodeString(str) == [k \in 1..Len(str) |-> EscapeChar(str[k])]

DecodeString(lit) == [k \in 1..Len(lit) |-> UnescapeChar(lit[k])]

JNull == [kind |-> "null", elems |-> <<>>]

JMalformed == [kind |-> "malformed", elems |-> <<>>]

JNullElem == [null |-> TRUE, hasOp |-> FALSE, op |-> "", hasValue |-> FALSE, value |-> <<>>]

\* json.Marshal of a kernelArgument: both fields are omitempty
MarshalArg(operation, value) ==
    [null |-> FALSE,
     hasOp |-> operation # "", op |-> operation,
     hasValue |-> value # <<>>, value |-> EncodeString(value)]

KargsToStr(args) ==
    IF Len(args) = 0 THEN [err |-> NoErr, str |-> JNull]
    ELSE [err |-> NoErr,
          str |-> [kind |-> "array",
                   elems |-> [k \in 1..Len(args) |-> MarshalArg("append", args[k])]]]

\* json.Unmarshal of one array element into a *kernelArgument
UnmarshalArg(e) ==
    IF e.null THEN [nil |-> TRUE, Operation |-> "", Value |-> <<>>]
    ELSE [nil |-> FALSE,
          Operation |-> IF e.hasOp THEN e.op ELSE "",
          Value |-> IF e.hasValue THEN DecodeString(e.value) ELSE <<>>]

\* the loop of StrToKargs dropping the records whose value is empty
StrToKargsLoop_skipEmpty(kargs) ==
    LET F[n \in 0..Len(kargs)] ==
            IF n = 0 THEN [status |-> "ok", args |-> <<>>]
            ELSE IF F[n-1].status # "ok" THEN F[n-1]
            ELSE IF kargs[n].nil THEN [status |-> "panic", args |-> <<>>]
            ELSE IF kargs[n].Operation # "append" THEN [status |-> "error", args |-> <<>>]
            ELSE IF kargs[n].Value = <<>> THEN F[n-1]
            ELSE [status |-> "ok", args |-> Append(F[n-1].args, kargs[n].Value)]
    IN F[Len(kargs)]

\* the loop of StrToKargs over kargs[1..n]
StrToKargsLoop(kargs) ==
    LET F[n \in 0..Len(kargs)] ==
            IF n = 0 THEN [status |-> "ok", args |-> <<>>]
            ELSE IF F[n-1].status # "ok" THEN F[n-1]
            ELSE IF kargs[n].nil THEN [status |-> "panic", args |-> <<>>]
            ELSE IF kargs[n].Operation # "append" THEN [status |-> "error", args |-> <<>>]
            ELSE [status |-> "ok", args |-> Append(F[n-1].args, kargs[n].Value)]
    IN F[Len(kargs)]

StrToKargs(kargsStr) ==
    IF kargsStr.kind = "malformed" THEN [status |-> "error", args |-> <<>>]
    ELSE StrToKargsLoop([k \in 1..Len(kargsStr.elems) |-> UnmarshalArg(kargsStr.elems[k])])

GivenElems ==
    {JNullElem} \cup
    {[null |-> FALSE, hasOp |-> ho, op |-> IF ho THEN o ELSE "", hasValue |-> TRUE, value |-> <<"a">>] :
        ho \in BOOLEAN, o \in {"append", "delete", "replace"}}

GivenTexts ==
    {JNull, JMalformed} \cup {[kind |-> "array", elems |-> es] : es \in SeqsUpTo(GivenElems, MaxArgs)}

NoResult == [status |-> "none", args |-> <<>>]

\* a caller encodes a list of arguments
CodecEncode ==
    /\ cpc = "start"
    /\ cStr' = KargsToStr(cArgs).str
    /\ cpc' = "encoded"
    /\ UNCHANGED <<cArgs, cOut>>
    /\ UNCHANGED convVars
    /\ UNCHANGED unitVars

\* a caller decodes the text it encoded
CodecDecodeEncoded ==
    /\ cpc = "encoded"
    /\ cOut' = StrToKargs(cStr)
    /\ cpc' = "roundtrip"
    /\ UNCHANGED <<cArgs, cStr>>
    /\ UNCHANGED convVars
    /\ UNCHANGED unitVars

\* a caller decodes a text it was given
CodecDecodeGiven ==
    /\ cpc = "given"
    /\ cOut' = StrToKargs(cStr)
    /\ cpc' = "decoded"
    /\ UNCHANGED <<cArgs, cStr>>
    /\ UNCHANGED convVars
    /\ UNCHANGED unitVars

InitCodec ==
    /\ impl = "kargs"
    /\ s390x = FALSE
    /\ iso = MkIso(Absent, There(PlainContent), ManifestAbsent)
    /\ pc = "off"
    /\ appendText = <<>>
    /\ appendData = <<>>
    /\ files = <<>>
    /\ i = 0
    /\ j = 0
    /\ output = <<>>
    /\ ret = <<>>
    /\ err = NoErr
    /\ handles = <<>>
    /\ dirs = <<>>
    /\ callerClosed = {}
    /\ readBack = <<>>
    /\ cOut = NoResult
    /\ UnitOff
    /\ \/ cpc = "start" /\ cArgs \in ArgLists /\ cStr = JNull
       \/ cpc = "given" /\ cArgs = <<>> /\ cStr \in GivenTexts

NextCodec ==
    \/ CodecEncode
    \/ CodecDecodeEncoded
    \/ CodecDecodeGiven

SpecCodec == InitCodec /\ [][NextCodec]_vars

----------------------------------------------------------------------------
\* kargsFiles called on its own

KargsFilesCall ==
    /\ pc = "idle"
    /\ files' = kargsFiles(iso).files
    /\ err' = kargsFiles(iso).err
    /\ pc' = "resolved"
    /\ UNCHANGED <<impl, s390x, iso, appendText, appendData, i, j, output, ret, handles, dirs,
                   callerClosed, readBack>>
    /\ UNCHANGED codecVars
    /\ UNCHANGED unitVars

InitFiles ==
    /\ impl = "kargs"
    /\ s390x = FALSE
    /\ iso \in Images
    /\ pc = "idle"
    /\ appendText = <<>>
    /\ appendData = <<>>
    /\ files = <<>>
    /\ i = 0
    /\ j = 0
    /\ output = <<>>
    /\ ret = <<>>
    /\ err = NoErr
    /\ handles = <<>>
    /\ dirs = <<>>
    /\ callerClosed = {}
    /\ readBack = <<>>
    /\ CodecOff
    /\ UnitOff

NextFiles == KargsFilesCall

SpecFiles == InitFiles /\ [][NextFiles]_vars

----------------------------------------------------------------------------
\* kargsEmbedAreaBoundariesFinder and isolateISOFile called on their own

\* largest minLength given to isolateISOFile
MaxMinLength == 9

MinLengths == 0..MaxMinLength

FinderFaults == {"none", "info", "read"}

IsolateFaults == {"none", "isoinfo", "seek"}

\* a caller runs the boundaries finder on a file of the image
FinderCall(path, fault) ==
    /\ upc = "idle"
    /\ uArg' = [path |-> path, minLength |-> 0, fault |-> fault]
    /\ uRes' = [err |-> kargsEmbedAreaBoundariesFinder(iso, path, fault = "info", fault = "read").err,
                offset |-> kargsEmbedAreaBoundariesFinder(iso, path, fault = "info", fault = "read").offset,
                length |-> kargsEmbedAreaBoundariesFinder(iso, path, fault = "info", fault = "read").length,
                expanded |-> FALSE,
                fd |-> NoFileData]
    /\ upc' = "found"
    /\ UNCHANGED convVars
    /\ UNCHANGED codecVars

\* a caller isolates a file of the image from the open image stream
IsolateCall(path, minLength, fault) ==
    /\ upc = "idle"
    /\ uArg' = [path |-> path, minLength |-> minLength, fault |-> fault]
    /\ uRes' = [err |-> isolateISOFile(iso, path, handles, 1, minLength, fault).err,
                offset |-> 0,
                length |-> 0,
                expanded |-> isolateISOFile(iso, path, handles, 1, minLength, fault).expanded,
                fd |-> isolateISOFile(iso, path, handles, 1, minLength, fault).fd]
    /\ upc' = "isolated"
    /\ UNCHANGED convVars
    /\ UNCHANGED codecVars

InitUnits ==
    /\ impl = "kargs"
    /\ s390x = FALSE
    /\ iso \in Images
    /\ pc = "off"
    /\ appendText = <<>>
    /\ appendData = <<>>
    /\ files = <<>>
    /\ i = 0
    /\ j = 0
    /\ output = <<>>
    /\ ret = <<>>
    /\ err = NoErr
    /\ handles = <<BaseHandle>>
    /\ dirs = <<>>
    /\ callerClosed = {}
    /\ readBack = <<>>
    /\ CodecOff
    /\ upc = "idle"
    /\ uArg = NoArg
    /\ uRes = NoUnitResult

NextUnits ==
    \/ \E path \in Paths, fault \in FinderFaults : FinderCall(path, fault)
    \/ \E path \in Paths, m \in MinLengths, fault \in IsolateFaults : IsolateCall(path, m, fault)

SpecUnits == InitUnits /\ [][NextUnits]_vars

----------------------------------------------------------------------------
\* Properties

\* number of Close calls that reached the handles behind a stream
StreamCloses(data) ==
    IF handles[data.h].kind = "overlay"
    THEN {handles[data.h].closes, handles[handles[data.h].base].closes}
    ELSE {handles[data.h].closes}

Failing == pc = "done" /\ err # NoErr

Succeeded == pc = "done" /\ err = NoErr

\* C1: when building the output for target i fails, every stream built for
\* the targets before it has been closed exactly once when the error is
\* returned, and no stream is returned.
C1_RollbackClosesOnce ==
    Failing => /\ ret = <<>>
               /\ \A k \in 1..Len(output) : StreamCloses(output[k].Data) = {1}

\* C2: on a successful return every returned stream, and the base image
\* handle behind it, is open; it is closed by the caller's Close only.
C2_ReturnedStreamsOpen ==
    Succeeded =>
        \A k \in 1..Len(ret) :
            StreamCloses(ret[k].Data) = (IF k \in callerClosed THEN {1} ELSE {0})

\* content of the file at path in the image
ContentOf(path) == SubSeq(iso.data, iso.dir[path].off + 1, iso.dir[path].off + iso.dir[path].len)

\* (1-based) position of the newline that starts the first marker line of c, 0 when none
CaptureStart(c) ==
    LET S == {p \in 1..Len(c) :
                /\ c[p] = NL
                /\ \E r \in 1..Len(c) :
                      /\ p + r + 1 <= Len(c)
                      /\ \A q \in 1..r : c[p + q] = "#"
                      /\ c[p + r + 1] = "K"}
    IN IF S = {} THEN 0 ELSE CHOOSE p \in S : \A p2 \in S : p <= p2

\* the append text followed by a newline (unchanged when it ends in one)
WithNewline(text) == IF text[Len(text)] = NL THEN text ELSE text \o <<NL>>

\* c with the bytes w substituted from (1-based) position p on, length kept
Substituted(c, p, w) ==
    [q \in 1..Len(c) |-> IF q >= p /\ q < p + Len(w) THEN w[q - p + 1] ELSE c[q]]

C4_AllOrNothing ==
    pc = "done" =>
        IF err = NoErr
        THEN /\ Len(ret) = Len(files)
             /\ \A k \in 1..Len(ret) : ret[k].Filename = files[k]
             /\ \A k, l \in 1..Len(ret) : k # l => ret[k].Data.h # ret[l].Data.h
        ELSE ret = <<>>

C4_Witness ==
    /\ Succeeded
    /\ Len(ret) = 2
    /\ ret[1].Filename = defaultIsolinuxFilePath
    /\ ret[2].Filename = defaultGrubFilePath

C4_FailureWitness == Failing /\ Len(output) > 0

\* C5: the scratch directory of a returned stream exists as long as the
\* returned file handle is open.
C5_ScratchDirOutlivesStream ==
    Succeeded =>
        \A k \in 1..Len(ret) :
            (ret[k].Data.kind = "file" /\ ~Closed(handles, ret[k].Data.h)) =>
                dirs[handles[ret[k].Data.h].dir].exists

\* every returned stream has been closed by the caller
StreamsFinished == pc = "done" /\ callerClosed = 1..Len(ret)

C7_Normalization ==
    (pc \in {"loop", "rollback", "done"} /\ appendText # <<>> /\ appendText # <<NL>>) =>
        appendData = IF appendText[Len(appendText)] # NL /\ ~s390x
                     THEN appendText \o <<NL>>
                     ELSE appendText

\* C8: no step of a conversion changes the original image.
C8_ImageNeverWritten == [][iso' = iso]_vars

C8_Witness ==
    \E h \in 1..Len(handles) :
        /\ handles[h].kind = "file"
        /\ handles[h].content # ContentOf(handles[h].path)

\* the manifest entries that carry a path, in manifest order
WithPath(fs) == SelectSeq(fs, LAMBDA e : e.hasPath)

\* C9: kargsFiles returns the two default paths, grub first, and no error
\* when the manifest cannot be read; an error and no list when the manifest
\* is malformed; otherwise the paths of the entries in manifest order, the
\* entries without a path skipped.
C9_KargsFiles ==
    pc = "resolved" =>
        CASE iso.manifest.state = "absent" ->
                err = NoErr /\ files = <<"/EFI/redhat/grub.cfg", "/isolinux/isolinux.cfg">>
          [] iso.manifest.state = "malformed" ->
                err # NoErr /\ files = <<>>
          [] OTHER ->
                /\ err = NoErr
                /\ Len(files) = Len(WithPath(iso.manifest.files))
                /\ \A k \in 1..Len(files) : files[k] = WithPath(iso.manifest.files)[k].path

C9_Witness ==
    /\ pc = "resolved"
    /\ iso.manifest.state = "ok"
    /\ Len(iso.manifest.files) = 2
    /\ ~iso.manifest.files[1].hasPath
    /\ files = <<defaultIsolinuxFilePath>>

\* C10 as stated: for every list of argument strings the round trip
\* StrToKargs(KargsToStr(list)) succeeds and returns the list.
C10_RoundTripAnyString ==
    cpc = "roundtrip" => cOut.status = "ok" /\ cOut.args = cArgs

ValidUTF8(str) == \A k \in 1..Len(str) : str[k] # "xFF"

\* C10 amended: for every list of argument strings that are valid UTF-8 the
\* round trip StrToKargs(KargsToStr(list)) succeeds and returns the list.
C10_RoundTripValidUTF8 ==
    (cpc = "roundtrip" /\ \A k \in 1..Len(cArgs) : ValidUTF8(cArgs[k])) =>
        cOut.status = "ok" /\ cOut.args = cArgs

C10_Witness ==
    /\ cpc = "roundtrip"
    /\ cArgs = <<<<>>, <<"q", "uFFFD">>>>
    /\ cOut.args = cArgs

----------------------------------------------------------------------------
\* a record of a given text whose operation is not "append"
NonAppendRecord(e) == ~e.null /\ (~e.hasOp \/ e.op # "append")

\* C11: StrToKargs of an array holding, at any position, a record whose
\* operation is not "append" (another operation, or none) fails with the
\* validation error and returns no list.
C11_NonAppendRejected ==
    (cpc = "decoded" /\ \E k \in 1..Len(cStr.elems) : NonAppendRecord(cStr.elems[k])) =>
        cOut.status = "error" /\ cOut.args = <<>>

\* C12: for a file whose content has a marker line the finder returns the
\* file's start offset plus the start of the capture group (the newline
\* that starts the marker line) and the length of the capture group; the
\* bytes of the content in that range are one newline followed only by "#",
\* and the literal "# COREOS_KARG_EMBED_AREA" begins right after the range.
C12_FinderRegion ==
    (/\ upc = "found"
     /\ uArg.fault = "none"
     /\ iso.dir[uArg.path].ok
     /\ CaptureStart(ContentOf(uArg.path)) > 0) =>
        LET c == ContentOf(uArg.path)
            p == CaptureStart(c)
            n == uRes.length
        IN /\ uRes.err = NoErr
           /\ uRes.offset = iso.dir[uArg.path].off + (p - 1)
           /\ n >= 1
           /\ p + n + 1 <= Len(c)
           /\ c[p] = NL
           /\ \A q \in 1..(n - 1) : c[p + q] = "#"
           /\ c[p + n] = "#"
           /\ c[p + n + 1] = "K"

C12_Witness ==
    /\ upc = "found"
    /\ uArg = [path |-> defaultIsolinuxFilePath, minLength |-> 0, fault |-> "none"]
    /\ ContentOf(defaultIsolinuxFilePath) = MarkerContent
    /\ iso.dir[defaultIsolinuxFilePath].off = 9
    /\ uRes.err = NoErr
    /\ uRes.offset = 10
    /\ uRes.length = 3

\* (1-based) positions of the newlines that start a marker line of c
MarkerLines(c) ==
    {p \in 1..Len(c) :
        /\ c[p] = NL
        /\ \E r \in 1..Len(c) :
              /\ p + r + 1 <= Len(c)
              /\ \A q \in 1..r : c[p + q] = "#"
              /\ c[p + r + 1] = "K"}

\* C13: the finder, run on a file that can be located and read, returns a
\* region only when the content has exactly one marker line; with no
\* marker line and with two or more it fails with the marker-not-found
\* error.
C13_ExactlyOneMatch ==
    (upc = "found" /\ uArg.fault = "none" /\ iso.dir[uArg.path].ok) =>
        IF Cardinality(MarkerLines(ContentOf(uArg.path))) = 1
        THEN uRes.err = NoErr
        ELSE uRes.err = "failed to find COREOS_KARG_EMBED_AREA"

\* C14: a successful isolateISOFile of a file of length L with minimum
\* length m returns wasExpanded = (m > L) and a stream that starts at the
\* file's offset in the underlying source and is limited to m bytes when
\* m > L and to L bytes otherwise.
C14_IsolateLength ==
    (upc = "isolated" /\ uRes.err = NoErr) =>
        LET L == iso.dir[uArg.path].len
            m == uArg.minLength
        IN /\ iso.dir[uArg.path].ok
           /\ uRes.fd.Filename = uArg.path
           /\ uRes.fd.Data.start = iso.dir[uArg.path].off
           /\ (m > L => uRes.expanded /\ uRes.fd.Data.limit = m)
           /\ (m <= L => ~uRes.expanded /\ uRes.fd.Data.limit = L)

C14_Witness ==
    /\ upc = "isolated"
    /\ uRes.err = NoErr
    /\ iso.dir[uArg.path].len = 8
    /\ uArg.minLength = 9
    /\ uRes.expanded
    /\ uRes.fd.Data.limit = 9

\* the patch region of the overlay ov lies inside the byte range f of a
\* file of the image, or starts exactly at the file's end
PatchWithin(ov, f) ==
    \/ ov.off >= f.off /\ ov.off + Len(ov.patch) <= f.off + f.len
    \/ ov.off = f.off + f.len

\* C15: every stream returned for a target by an overlay conversion (marker
\* or reservation strategy) has its patch region, from the patch offset
\* over the length of the appended bytes, entirely inside the target
\* file's byte range in the image or starting exactly at the file's end.
C15_PatchRegionInFile ==
    \A k \in 1..Len(ret) :
        handles[ret[k].Data.h].kind = "overlay" =>
            PatchWithin(handles[ret[k].Data.h], iso.dir[ret[k].Filename])

\* the handles behind the streams built for the targets before the current one
OutputHandles ==
    {output[k].Data.h : k \in 1..Len(output)} \cup
    {handles[output[k].Data.h].base : k \in 1..Len(output)}

\* C16: when the conversion of a target has failed, every handle it opened
\* (the base image handle, the overlay, the read-write handle on the
\* extracted file) has been closed when its error is returned.
C16_FailingExitClosesHandles ==
    pc = "rollback" =>
        \A h \in 1..Len(handles) : h \notin OutputHandles => handles[h].closes >= 1

\* C17: after a successful NewKargsReader, once the caller has closed every
\* returned stream, every handle the call opened (overlays, base image
\* handles, extracted files) has been closed, and closed exactly once.
C17_HandlesClosedOnce ==
    (Succeeded /\ callerClosed = 1..Len(ret)) =>
        \A h \in 1..Len(handles) : handles[h].closes = 1

\* file-relative offset of the reservation of the target path: the offset
\* of its manifest entry plus the length of the manifest's default
ReservationPos(path) ==
    iso.manifest.files[EntryFor(iso.manifest.files, path)].offset + Len(iso.manifest.default)

\* C18: under the reservation-table strategy the stream returned for a
\* target, read from start to end, has the file's bytes unchanged before
\* file-relative offset entry.offset + len(default) and the appended bytes
\* from that offset on; an overlay is put at the target's offset in the
\* image plus that value.
C18_ReservationOffset ==
    \A k \in 1..Len(readBack) :
        (s390x /\ readBack[k].state = "read") =>
            LET c == ContentOf(ret[k].Filename)
                pos == ReservationPos(ret[k].Filename)
                b == readBack[k].bytes
            IN /\ \A q \in 1..Len(b) : (q <= pos /\ q <= Len(c)) => b[q] = c[q]
               /\ \A q \in 1..Len(appendData) : pos + q <= Len(b) => b[pos + q] = appendData[q]
               /\ handles[ret[k].Data.h].kind = "overlay" =>
                      handles[ret[k].Data.h].off = iso.dir[ret[k].Filename].off + pos

\* C19: StrToKargs of a JSON array whose elements are records or null
\* ends with a list or with an error; with a null element it ends with an
\* error, neither crashing nor accepting the element.
C19_TotalOverArrays ==
    (cpc = "decoded" /\ cStr.kind = "array") =>
        /\ cOut.status \in {"ok", "error"}
        /\ (\E k \in 1..Len(cStr.elems) : cStr.elems[k].null) => cOut.status = "error"

====
